---- MODULE Spec2Model ----
(***************************************************************************)
(* Model of the page-to-record extraction pipeline of WellTrajectoryAI:    *)
(* src/main.py (detect_and_ocr, merge_text_blocks,                          *)
(* extract_survey_structured, extract_and_merge_survey,                     *)
(* extract_selected_pages_survey) with the schema of                        *)
(* src/models/directionalsurvey.py, and of the callbacks of the Dash app    *)
(* src/app.py that process, edit and export the merged survey.              *)
(*                                                                         *)
(* Python values: None is the string None below, a str is a TLA+ string    *)
(* (metadata values) or a sequence of one-character strings (OCR text),    *)
(* a dict is a function whose domain is its key set, a list is a sequence, *)
(* a pydantic object is [cls |-> name, data |-> dict of its fields].       *)
(***************************************************************************)
EXTENDS Integers, Sequences, FiniteSets, TLC

\* ------------------------------------------------------------------ bounds
MaxPages == 2   \* pages of a document: 0..MaxPages
MaxSel == 2     \* length of selected_page_indices: 0..MaxSel

\* ------------------------------------------------------------ Python basics
None == "<None>"

EmptyDict == [k \in {} |-> None]

\* dict.get(key): the value, or None when the key is absent
Get(d, k) == IF k \in DOMAIN d THEN d[k] ELSE None

Range(s) == {s[j] : j \in 1..Len(s)}

RECURSIVE FlattenSeq(_)
\* list.extend over a sequence of lists, left to right
FlattenSeq(ss) == IF ss = <<>> THEN <<>> ELSE Head(ss) \o FlattenSeq(Tail(ss))

\* ---------------------------------------------------------------- schema
\* main.py: the metadata_fields list of the three merge functions
metadata_fields ==
    << "uwi", "operator", "vendor", "contact_info", "county", "method", "north_ref",
       "shl_lat", "shl_lon", "shl_x", "shl_y", "bhl_lat", "bhl_lon", "bhl_x", "bhl_y",
       "lease_location", "job_number", "map_system", "geo_datum", "system_datum",
       "map_zone", "ground_level_elevation", "datum_elevation", "date_created" >>

MetadataFieldSet == Range(metadata_fields)

\* models/directionalsurvey.py: the fields SurveyPoint declares
SurveyPointFields == {"md", "inc", "azi", "tvd", "ns", "ew"}

\* models/directionalsurvey.py: the fields DirectionalSurvey declares
DirectionalSurveyFields ==
    { "uwi", "survey_points", "operator", "vendor", "contact_info", "county", "method",
      "north_ref", "shl_lat", "shl_lon", "shl_x", "shl_y", "bhl_lat", "bhl_lon",
      "bhl_x", "bhl_y", "lease_location", "job_number", "map_zone", "map_system",
      "geo_datum", "system_datum", "ground_level_elevation", "datum_elevation",
      "date_created" }

\* SurveyPoint.Config extra = "forbid": a point dict validates iff it has exactly
\* the six declared (required) fields
SurveyPointValid(p) == DOMAIN p = SurveyPointFields

\* mutant: extra = "ignore", an undeclared field of the record is dropped silently
DirectionalSurveyAcceptsExtra(raw) ==
    /\ "uwi" \in DOMAIN raw /\ raw["uwi"] # None
    /\ "survey_points" \in DOMAIN raw
    /\ \A j \in 1..Len(raw["survey_points"]) : SurveyPointValid(raw["survey_points"][j])

\* DirectionalSurvey.Config extra = "forbid", with uwi: str and
\* survey_points: List[SurveyPoint] required
DirectionalSurveyValid(raw) ==
    /\ DOMAIN raw \subseteq DirectionalSurveyFields
    /\ "uwi" \in DOMAIN raw /\ raw["uwi"] # None
    /\ "survey_points" \in DOMAIN raw
    /\ \A j \in 1..Len(raw["survey_points"]) : SurveyPointValid(raw["survey_points"][j])

\* the pydantic objects built from a validated dict: undeclared keys never
\* become attributes, an Optional field not given is None
SurveyPointObj(p) == [cls |-> "SurveyPoint", data |-> [f \in SurveyPointFields |-> p[f]]]

DirectionalSurveyObj(raw) ==
    [cls |-> "DirectionalSurvey",
     data |-> [f \in DirectionalSurveyFields |->
                 IF f = "survey_points"
                 THEN [j \in 1..Len(raw[f]) |-> SurveyPointObj(raw[f][j])]
                 ELSE Get(raw, f)]]

isinstance(x, cls) == "cls" \in DOMAIN x /\ x["cls"] = cls

\* hasattr(sp, "model_dump"): true of pydantic objects, false of dicts
HasModelDump(x) == "cls" \in DOMAIN x

\* BaseModel.model_dump(): the object as a dict, nested objects dumped too
model_dump(obj) ==
    IF obj["cls"] = "DirectionalSurvey"
    THEN [f \in DOMAIN obj["data"] |->
            IF f = "survey_points"
            THEN [j \in 1..Len(obj["data"][f]) |-> obj["data"][f][j]["data"]]
            ELSE obj["data"][f]]
    ELSE obj["data"]

\* ------------------------------------------------------- text recognition
\* str.strip() removes leading and trailing whitespace, so `text and text.strip()`
\* is truthy iff the text holds a character that is not whitespace
IsWhitespace(c) == c \in {" ", "\t", "\n"}

StripIsTruthy(text) == \E j \in 1..Len(text) : ~IsWhitespace(text[j])

RECURSIVE FilterBlocks(_, _)
\* main.py detect_and_ocr, the loop over zip(rec_texts, rec_polys, rec_scores):
\* (poly, text) of every fragment that is not blank, in detection order; the
\* polygon of fragment j is modelled by its position j
FilterBlocks(rec_texts, j) ==
    IF j > Len(rec_texts) THEN <<>>
    ELSE (IF StripIsTruthy(rec_texts[j]) THEN << <<j, rec_texts[j]>> >> ELSE <<>>)
         \o FilterBlocks(rec_texts, j + 1)

\* mutant: a fragment whose text was seen before on the page is left out
detect_and_ocr_dedup(rec_texts) ==
    LET first(j) == StripIsTruthy(rec_texts[j]) /\ \A m \in 1..(j - 1) : rec_texts[m] # rec_texts[j]
        kept == SelectSeq([j \in 1..Len(rec_texts) |-> j], first)
    IN  [k \in 1..Len(kept) |-> <<kept[k], rec_texts[kept[k]]>>]

detect_and_ocr(rec_texts) == FilterBlocks(rec_texts, 1)

RECURSIVE JoinLinesSkipEmpty(_)
\* mutant: empty texts are left out of the join
JoinLinesSkipEmpty(texts) ==
    IF texts = <<>> THEN <<>>
    ELSE IF texts[1] = <<>> THEN JoinLinesSkipEmpty(Tail(texts))
    ELSE IF Len(texts) = 1 THEN texts[1]
    ELSE texts[1] \o <<"\n">> \o JoinLinesSkipEmpty(Tail(texts))

RECURSIVE JoinLines(_)
\* "\n".join(texts)
JoinLines(texts) ==
    IF texts = <<>> THEN <<>>
    ELSE IF Len(texts) = 1 THEN texts[1]
    ELSE texts[1] \o <<"\n">> \o JoinLines(Tail(texts))

merge_text_blocks(text_blocks) ==
    JoinLines([j \in 1..Len(text_blocks) |-> text_blocks[j][2]])

\* ------------------------------------------------------ structured extraction
\* services/llm.py text_to_llm(llm_model, feature_model, document_text): asks the
\* backend for a record and validates it against the schema; returns the
\* validated object or raises.  `page` carries what the backend does for the page.
text_to_llm(page, text) ==
    IF page.llm_raises THEN [raised |-> TRUE, value |-> EmptyDict]
    ELSE IF DirectionalSurveyValid(page.llm_output)
         THEN [raised |-> FALSE, value |-> DirectionalSurveyObj(page.llm_output)]
         ELSE [raised |-> TRUE, value |-> EmptyDict]

\* mutant: a record the schema rejects is handed on as the backend gave it
extract_survey_structured_unvalidated(page, text) ==
    IF page.llm_raises THEN EmptyDict
    ELSE IF DirectionalSurveyValid(page.llm_output)
         THEN DirectionalSurveyObj(page.llm_output)
         ELSE page.llm_output

\* main.py extract_survey_structured: any exception becomes the empty dict
extract_survey_structured(page, text) ==
    LET r == text_to_llm(page, text)
    IN  IF r.raised THEN EmptyDict ELSE r.value

\* ------------------------------------------------------------------ merging
\* "Merge survey points and metadata": what the page appends to all_survey_points
PagePoints(structured) ==
    IF isinstance(structured, "DirectionalSurvey") THEN structured["data"]["survey_points"]
    ELSE IF "survey_points" \in DOMAIN structured THEN structured["survey_points"]
    ELSE <<>>

\* ... and the page_metadata dict it yields
PageMetadata(structured) ==
    IF isinstance(structured, "DirectionalSurvey") THEN model_dump(structured)
    ELSE IF "survey_points" \in DOMAIN structured THEN structured
    ELSE EmptyDict

\* mutant: the test of the merged value is dropped, so the last value wins
MergeMetadataLastWins(merged, page_metadata) ==
    [f \in DOMAIN merged |->
        IF Get(page_metadata, f) \notin {None, ""}
        THEN Get(page_metadata, f)
        ELSE merged[f]]

\* "For each metadata field, take the first non-empty value"
MergeMetadata(merged, page_metadata) ==
    [f \in DOMAIN merged |->
        IF Get(page_metadata, f) \notin {None, ""} /\ merged[f] \in {None, ""}
        THEN Get(page_metadata, f)
        ELSE merged[f]]

\* mutant: the None and "" entries are not filtered out
CleanUpKeepNulls(merged, points) ==
    LET dumped == [j \in 1..Len(points) |->
                     IF HasModelDump(points[j]) THEN model_dump(points[j]) ELSE points[j]]
    IN  IF points # <<>> THEN ("survey_points" :> dumped) @@ merged ELSE merged

\* mutant: the number of points is added to the record under a key of its own
CleanUpAddsCount(merged, points) ==
    LET kept == {k \in DOMAIN merged : merged[k] \notin {None, ""}}
        cleaned == [k \in kept |-> merged[k]]
        dumped == [j \in 1..Len(points) |->
                     IF HasModelDump(points[j]) THEN model_dump(points[j]) ELSE points[j]]
    IN  ("num_points" :> Len(points)) @@
        (IF points # <<>> THEN ("survey_points" :> dumped) @@ cleaned ELSE cleaned)

\* mutant: the survey_points key is set even when no point was accumulated
CleanUpAlwaysPoints(merged, points) ==
    LET kept == {k \in DOMAIN merged : merged[k] \notin {None, ""}}
        cleaned == [k \in kept |-> merged[k]]
        dumped == [j \in 1..Len(points) |->
                     IF HasModelDump(points[j]) THEN model_dump(points[j]) ELSE points[j]]
    IN  ("survey_points" :> dumped) @@ cleaned

\* "Clean up merged metadata and add survey points"
CleanUp(merged, points) ==
    LET kept == {k \in DOMAIN merged : merged[k] \notin {None, ""}}
        cleaned == [k \in kept |-> merged[k]]
        dumped == [j \in 1..Len(points) |->
                     IF HasModelDump(points[j]) THEN model_dump(points[j]) ELSE points[j]]
    IN  IF points # <<>> THEN ("survey_points" :> dumped) @@ cleaned ELSE cleaned

\* ------------------------------------------------------------------- inputs
\* a survey point as the backend returns it (a dict of the six numbers)
Pt(md) == [md |-> md, inc |-> 0, azi |-> 0, tvd |-> md, ns |-> 0, ew |-> 0]

\* a backend record with every declared field present, unset ones null
Raw(uwi, operator, points) ==
    [f \in DirectionalSurveyFields |->
        CASE f = "uwi" -> uwi
          [] f = "operator" -> operator
          [] f = "survey_points" -> points
          [] OTHER -> None]

\* what the recognizer and the backend do for one page
Page(ocr_raises, rec_texts, llm_raises, llm_output) ==
    [ocr_raises |-> ocr_raises, rec_texts |-> rec_texts,
     llm_raises |-> llm_raises, llm_output |-> llm_output]

TextMD == << <<"M", "D">>, <<" ">>, <<"1">> >>

\* the per-page outcomes the model draws pages from
PageOutcomes ==
    { \* the recognizer raises
      Page(TRUE, <<>>, TRUE, EmptyDict),
      \* the backend raises
      Page(FALSE, TextMD, TRUE, EmptyDict),
      \* a valid record without points, operator empty
      Page(FALSE, TextMD, FALSE, Raw("ABC", "", <<>>)),
      \* a valid record with one point
      Page(FALSE, TextMD, FALSE, Raw("XYZ", "OpA", <<Pt(100)>>)),
      \* a valid record with an empty uwi, repeating the point of the previous one
      Page(FALSE, <<>>, FALSE, Raw("", "OpB", <<Pt(100), Pt(200)>>)),
      \* a record with a field the schema does not declare
      Page(FALSE, TextMD, FALSE, ("well_name" :> "W1") @@ Raw("EXT", "OpX", <<Pt(300)>>)),
      \* a point with a field the schema does not declare
      Page(FALSE, TextMD, FALSE, Raw("EXP", "OpY", <<("x" :> 1) @@ Pt(400)>>)) }

SeqsUpTo(S, n) == UNION {[1..k -> S] : k \in 0..n}

\* indices offered to a document of n pages: in range, one past either end, and -1
IndexChoices(n) == (0..n) \cup {-1, -(n + 1)}

\* ------------------------------------------------------------------- state
VARIABLES
    fn,                     \* the function running
    pages_data,             \* the document: one Page per page
    selected_page_indices,  \* the argument of extract_selected_pages_survey
    pc,                     \* "for" | "ocr" | "llm" | "merge" | "done" | "raised"
    i,                      \* position of the loop in the sequence it iterates
    page_no,                \* 0-based number of the page being processed, -1 if none
    all_text,               \* the page's aggregated text
    structured,             \* the page's extraction result
    all_page_texts, all_survey_points, merged_metadata,
    result,                 \* the returned dict
    warnings,               \* indices reported out of range
    ocr_log, llm_log, merge_log   \* page numbers, in the order the step ran on them

VARIABLES
    merged_json             \* the <base>_ocr_merged.json file of extract_and_merge_survey

\* the text aggregator on its own: recognizer output -> text blocks -> page text
VARIABLES
    tx_pc,                  \* "start" | "blocks" | "text"
    tx_rec_texts,           \* the fragments the recognizer returned, in detection order
    tx_text_blocks,         \* what detect_and_ocr made of them
    tx_all_text             \* what merge_text_blocks made of the blocks

text_vars == << tx_pc, tx_rec_texts, tx_text_blocks, tx_all_text >>

\* the Dash app (app.py): stores and component properties the callbacks read and write;
\* pdf-pages-store is pages_data and selected-pages-store is selected_page_indices
VARIABLES
    survey_store,           \* survey-store.data
    table_columns,          \* survey-table.columns
    table_data,             \* survey-table.data
    form_values,            \* the value of the sixteen form inputs
    table_changed,          \* survey-table.data was set and its callback has not run yet
    edits,                  \* how many edits the user has made (table cells, rows, form)
    processed_survey,       \* what the last Process click put into survey-store
    shared_csv,             \* latest_directional_survey.csv in SHARED_FOLDER
    csv_download,           \* download-csv.data, the file sent to the browser
    process_btn             \* process-selected-btn: disabled and children

app_vars == << survey_store, table_columns, table_data, form_values, table_changed,
               edits, processed_survey, shared_csv, csv_download, process_btn >>

\* the page selection of the viewer (app.py 374-494)
VARIABLES
    checkbox_values,        \* value of the page-checkbox of each page shown, in page order
    checkbox_changed        \* the checkbox values were set and their callback has not run yet

sel_vars == << checkbox_values, checkbox_changed >>

\* callbacks of the app handled concurrently
VARIABLES
    inflight,               \* requests sent by the browser and not answered yet
    handled                 \* the requests whose response was applied, in that order

conc_vars == << inflight, handled >>

\* what the steps of the merge functions leave alone
other_vars == << text_vars, app_vars, sel_vars, conc_vars >>

vars == << fn, pages_data, selected_page_indices, pc, i, page_no, all_text, structured,
           all_page_texts, all_survey_points, merged_metadata, result, warnings,
           ocr_log, llm_log, merge_log, merged_json, text_vars, app_vars,
           sel_vars, conc_vars >>

NumPages == Len(pages_data)

\* ascending sort of a list of integers (Python's sorted)
RECURSIVE sorted(_)
sorted(s) ==
    IF s = <<>> THEN <<>>
    ELSE LET m == CHOOSE j \in 1..Len(s) : \A k \in 1..Len(s) : s[j] <= s[k]
         IN  <<s[m]>> \o sorted([k \in 1..(Len(s) - 1) |-> IF k < m THEN s[k] ELSE s[k + 1]])

\* mutant: extract_and_merge_survey walks the pages from the last to the first
IterSeqWholeReversed ==
    IF fn = "extract_and_merge_survey"
    THEN [j \in 1..NumPages |-> NumPages - j]
    ELSE selected_page_indices

\* mutant: an empty selection is taken to mean every page
IterSeqEmptyMeansAll ==
    IF fn = "extract_and_merge_survey" \/ selected_page_indices = <<>>
    THEN [j \in 1..NumPages |-> j - 1]
    ELSE selected_page_indices

\* mutant: the selection is sorted before the loop
IterSeqSorted ==
    IF fn = "extract_and_merge_survey"
    THEN [j \in 1..NumPages |-> j - 1]
    ELSE sorted(selected_page_indices)

\* enumerate(images) for extract_and_merge_survey, selected_page_indices otherwise
IterSeq ==
    IF fn = "extract_and_merge_survey"
    THEN [j \in 1..NumPages |-> j - 1]
    ELSE selected_page_indices

\* a file that has not been written
NoFile == [written |-> FALSE, content |-> EmptyDict]

\* survey-store.data: None, or the dict stored
StoreNone == [none |-> TRUE, d |-> EmptyDict]

Store(d) == [none |-> FALSE, d |-> d]

\* no CSV: the file does not exist, nothing was sent
NoCsv == [columns |-> <<>>, rows |-> <<>>]

\* the text aggregator is not running
TextIdle ==
    /\ tx_pc = "idle"
    /\ tx_rec_texts = <<>>
    /\ tx_text_blocks = <<>>
    /\ tx_all_text = <<>>

\* app.py 156-163 (555): the Process button, enabled and labelled Process
ProcessBtnEnabled == [disabled |-> FALSE, children |-> "Process"]

\* the app is not running
AppIdle ==
    /\ survey_store = StoreNone
    /\ table_columns = <<>>
    /\ table_data = <<>>
    /\ form_values = EmptyDict
    /\ table_changed = FALSE
    /\ edits = 0
    /\ processed_survey = StoreNone
    /\ shared_csv = NoCsv
    /\ csv_download = NoCsv
    /\ process_btn = ProcessBtnEnabled
    /\ checkbox_values = <<>>
    /\ checkbox_changed = FALSE
    /\ inflight = {}
    /\ handled = <<>>

\* lines 309-319 (221-231): empty accumulators, every metadata field None
Init ==
    /\ fn \in {"extract_selected_pages_survey", "extract_and_merge_survey"}
    /\ pages_data \in SeqsUpTo(PageOutcomes, MaxPages)
    /\ selected_page_indices \in
         IF fn = "extract_selected_pages_survey"
         THEN SeqsUpTo(IndexChoices(Len(pages_data)), MaxSel)
         ELSE {<<>>}
    /\ pc = "for"
    /\ i = 1
    /\ page_no = -1
    /\ all_text = <<>>
    /\ structured = EmptyDict
    /\ all_page_texts = <<>>
    /\ all_survey_points = <<>>
    /\ merged_metadata = [f \in MetadataFieldSet |-> None]
    /\ result = EmptyDict
    /\ warnings = <<>>
    /\ ocr_log = <<>>
    /\ llm_log = <<>>
    /\ merge_log = <<>>
    /\ merged_json = NoFile
    /\ TextIdle
    /\ AppIdle

\* mutant: off by one, the index equal to the page count passes
IndexTooLargeOffByOne(page_idx, n) == page_idx > n

\* line 323: the index is out of range
IndexTooLarge(page_idx, n) == page_idx >= n

\* lines 322-325: an index past the last page is reported and skipped
SkipOutOfRange ==
    /\ pc = "for" /\ i <= Len(IterSeq)
    /\ fn = "extract_selected_pages_survey"
    /\ IndexTooLarge(IterSeq[i], NumPages)
    /\ warnings' = Append(warnings, IterSeq[i])
    /\ i' = i + 1
    /\ UNCHANGED << fn, pages_data, selected_page_indices, pc, page_no, all_text,
                    structured, all_page_texts, all_survey_points, merged_metadata,
                    result, ocr_log, llm_log, merge_log >>
    /\ UNCHANGED << merged_json, other_vars >>

\* line 327 pages_data[page_idx] (line 233 for enumerate): Python indexing, a
\* negative index counts from the end
FetchPage ==
    /\ pc = "for" /\ i <= Len(IterSeq)
    /\ ~(fn = "extract_selected_pages_survey" /\ IndexTooLarge(IterSeq[i], NumPages))
    /\ IterSeq[i] >= -NumPages /\ IterSeq[i] < NumPages
    /\ page_no' = IF IterSeq[i] >= 0 THEN IterSeq[i] ELSE NumPages + IterSeq[i]
    /\ pc' = "ocr"
    /\ UNCHANGED << fn, pages_data, selected_page_indices, i, all_text, structured,
                    all_page_texts, all_survey_points, merged_metadata, result,
                    warnings, ocr_log, llm_log, merge_log >>
    /\ UNCHANGED << merged_json, other_vars >>

\* line 327: pages_data[page_idx] raises IndexError, which leaves the function
FetchPageIndexError ==
    /\ pc = "for" /\ i <= Len(IterSeq)
    /\ ~(fn = "extract_selected_pages_survey" /\ IndexTooLarge(IterSeq[i], NumPages))
    /\ ~(IterSeq[i] >= -NumPages /\ IterSeq[i] < NumPages)
    /\ pc' = "raised"
    /\ UNCHANGED << fn, pages_data, selected_page_indices, i, page_no, all_text,
                    structured, all_page_texts, all_survey_points, merged_metadata,
                    result, warnings, ocr_log, llm_log, merge_log >>
    /\ UNCHANGED << merged_json, other_vars >>

\* lines 336-338 (237-248): detect_and_ocr, merge_text_blocks
DetectAndOcr ==
    /\ pc = "ocr"
    /\ ~pages_data[page_no + 1].ocr_raises
    /\ LET text_blocks == detect_and_ocr(pages_data[page_no + 1].rec_texts)
       IN  /\ all_text' = merge_text_blocks(text_blocks)
           /\ all_page_texts' = Append(all_page_texts, merge_text_blocks(text_blocks))
    /\ ocr_log' = Append(ocr_log, page_no)
    /\ pc' = "llm"
    /\ UNCHANGED << fn, pages_data, selected_page_indices, i, page_no, structured,
                    all_survey_points, merged_metadata, result, warnings, llm_log,
                    merge_log >>
    /\ UNCHANGED << merged_json, other_vars >>

\* mutant: the exception is caught around the loop and what was accumulated is
\* returned and written
DetectAndOcrRaisesKeepsPartial ==
    /\ pc = "ocr"
    /\ pages_data[page_no + 1].ocr_raises
    /\ ocr_log' = Append(ocr_log, page_no)
    /\ pc' = "raised"
    /\ result' = CleanUp(merged_metadata, all_survey_points)
    /\ merged_json' =
          IF fn = "extract_and_merge_survey"
          THEN [written |-> TRUE, content |-> CleanUp(merged_metadata, all_survey_points)]
          ELSE merged_json
    /\ UNCHANGED << fn, pages_data, selected_page_indices, i, page_no, all_text,
                    structured, all_page_texts, all_survey_points, merged_metadata,
                    warnings, llm_log, merge_log >>
    /\ UNCHANGED other_vars

\* line 53: OCR_MODEL.predict raises; detect_and_ocr and its callers catch nothing
DetectAndOcrRaises ==
    /\ pc = "ocr"
    /\ pages_data[page_no + 1].ocr_raises
    /\ ocr_log' = Append(ocr_log, page_no)
    /\ pc' = "raised"
    /\ UNCHANGED << fn, pages_data, selected_page_indices, i, page_no, all_text,
                    structured, all_page_texts, all_survey_points, merged_metadata,
                    result, warnings, llm_log, merge_log >>
    /\ UNCHANGED << merged_json, other_vars >>

\* mutant: the loop goes on to the next page before the page is merged
ExtractStructuredThenNextPage ==
    /\ pc = "llm"
    /\ structured' = extract_survey_structured(pages_data[page_no + 1], all_text)
    /\ llm_log' = Append(llm_log, page_no)
    /\ i' = i + 1
    /\ pc' = "for"
    /\ UNCHANGED << fn, pages_data, selected_page_indices, page_no, all_text,
                    all_page_texts, all_survey_points, merged_metadata, result,
                    warnings, ocr_log, merge_log >>
    /\ UNCHANGED << merged_json, other_vars >>

\* line 343 (251): structured = extract_survey_structured(all_text)
ExtractStructured ==
    /\ pc = "llm"
    /\ structured' = extract_survey_structured(pages_data[page_no + 1], all_text)
    /\ llm_log' = Append(llm_log, page_no)
    /\ pc' = "merge"
    /\ UNCHANGED << fn, pages_data, selected_page_indices, i, page_no, all_text,
                    all_page_texts, all_survey_points, merged_metadata, result,
                    warnings, ocr_log, merge_log >>
    /\ UNCHANGED << merged_json, other_vars >>

RECURSIVE AppendNew(_, _)
AppendNew(acc, pts) ==
    IF pts = <<>> THEN acc
    ELSE AppendNew(IF Head(pts) \in Range(acc) THEN acc ELSE Append(acc, Head(pts)),
                   Tail(pts))

\* mutant: a point already accumulated is not appended again
MergePageDedup ==
    /\ pc = "merge"
    /\ all_survey_points' = AppendNew(all_survey_points, PagePoints(structured))
    /\ merged_metadata' = MergeMetadata(merged_metadata, PageMetadata(structured))
    /\ merge_log' = Append(merge_log, page_no)
    /\ i' = i + 1
    /\ pc' = "for"
    /\ UNCHANGED << fn, pages_data, selected_page_indices, page_no, all_text,
                    structured, all_page_texts, result, warnings, ocr_log, llm_log >>
    /\ UNCHANGED << merged_json, other_vars >>

\* mutant: the points of the page are put in front of the accumulated ones
MergePagePrepend ==
    /\ pc = "merge"
    /\ all_survey_points' = PagePoints(structured) \o all_survey_points
    /\ merged_metadata' = MergeMetadata(merged_metadata, PageMetadata(structured))
    /\ merge_log' = Append(merge_log, page_no)
    /\ i' = i + 1
    /\ pc' = "for"
    /\ UNCHANGED << fn, pages_data, selected_page_indices, page_no, all_text,
                    structured, all_page_texts, result, warnings, ocr_log, llm_log >>
    /\ UNCHANGED << merged_json, other_vars >>

\* mutant: a page merged before is served from a cache and contributes nothing
MergePageOncePerPage ==
    /\ pc = "merge"
    /\ all_survey_points' =
          IF page_no \in Range(merge_log) THEN all_survey_points
          ELSE all_survey_points \o PagePoints(structured)
    /\ merged_metadata' = MergeMetadata(merged_metadata, PageMetadata(structured))
    /\ merge_log' = Append(merge_log, page_no)
    /\ i' = i + 1
    /\ pc' = "for"
    /\ UNCHANGED << fn, pages_data, selected_page_indices, page_no, all_text,
                    structured, all_page_texts, result, warnings, ocr_log, llm_log >>
    /\ UNCHANGED << merged_json, other_vars >>

\* lines 349-363 (260-272): the page's points and metadata go to the accumulators
MergePage ==
    /\ pc = "merge"
    /\ all_survey_points' = all_survey_points \o PagePoints(structured)
    /\ merged_metadata' = MergeMetadata(merged_metadata, PageMetadata(structured))
    /\ merge_log' = Append(merge_log, page_no)
    /\ i' = i + 1
    /\ pc' = "for"
    /\ UNCHANGED << fn, pages_data, selected_page_indices, page_no, all_text,
                    structured, all_page_texts, result, warnings, ocr_log, llm_log >>
    /\ UNCHANGED << merged_json, other_vars >>

\* lines 365-371 (281-289): the loop is over, the record is cleaned and returned
ReturnMerged ==
    /\ pc = "for" /\ i > Len(IterSeq)
    /\ result' = CleanUp(merged_metadata, all_survey_points)
    /\ merged_json' =
          IF fn = "extract_and_merge_survey"
          THEN [written |-> TRUE, content |-> CleanUp(merged_metadata, all_survey_points)]
          ELSE merged_json
    /\ pc' = "done"
    /\ UNCHANGED other_vars
    /\ UNCHANGED << fn, pages_data, selected_page_indices, i, page_no, all_text,
                    structured, all_page_texts, all_survey_points, merged_metadata,
                    warnings, ocr_log, llm_log, merge_log >>

Next ==
    \/ SkipOutOfRange
    \/ FetchPage
    \/ FetchPageIndexError
    \/ DetectAndOcr
    \/ DetectAndOcrRaises
    \/ ExtractStructured
    \/ MergePage
    \/ ReturnMerged

Spec == Init /\ [][Next]_vars

\* ---------------------------------------------------- vocabulary of the claims
PageOf(n) == pages_data[n + 1]

\* the extraction outcome of a page: a DirectionalSurvey object or the failure {}
OutcomeOf(n) == extract_survey_structured(PageOf(n), <<>>)

Succeeded(n) == isinstance(OutcomeOf(n), "DirectionalSurvey")

\* the value the outcome of page n gives for metadata field f (None on failure)
ValueOf(n, f) == IF Succeeded(n) THEN OutcomeOf(n)["data"][f] ELSE None

\* the points the outcome of page n carries, as dicts (none on failure)
PointsOf(n) ==
    IF Succeeded(n) THEN model_dump(OutcomeOf(n))["survey_points"] ELSE <<>>

\* backend error or schema-validation rejection
ExtractionFails(page) == page.llm_raises \/ ~DirectionalSurveyValid(page.llm_output)

\* the backend's record holds a field the schema does not declare, on the
\* record or on one of its points
HasUndeclaredField(page) ==
    /\ ~page.llm_raises
    /\ \/ \E k \in DOMAIN page.llm_output : k \notin DirectionalSurveyFields
       \/ /\ "survey_points" \in DOMAIN page.llm_output
          /\ \E j \in 1..Len(page.llm_output["survey_points"]) :
                \E k \in DOMAIN page.llm_output["survey_points"][j] :
                    k \notin SurveyPointFields

\* the point list of a returned record
MergedPoints(r) == IF "survey_points" \in DOMAIN r THEN r["survey_points"] ELSE <<>>

\* positions of merge_log whose page gives a real value for field f
Givers(f) == {k \in 1..Len(merge_log) : ValueOf(merge_log[k], f) \notin {None, ""}}

Min(S) == CHOOSE x \in S : \A y \in S : x <= y

RECURSIVE SumLen(_)
SumLen(ss) == IF ss = <<>> THEN 0 ELSE Len(Head(ss)) + SumLen(Tail(ss))

OcrRaised == \E k \in 1..Len(ocr_log) : PageOf(ocr_log[k]).ocr_raises

\* ------------------------------------------------------------------ claims
\* C1: in the returned record every metadata field some processed page gave a
\* non-null, non-empty value for holds the value of the earliest such page in
\* processing order, whether or not that page had points
C1_FirstNonEmptyWins ==
    pc = "done" =>
        \A f \in MetadataFieldSet :
            Givers(f) # {} =>
                /\ f \in DOMAIN result
                /\ result[f] = ValueOf(merge_log[Min(Givers(f))], f)

\* C1 witness: a page without points gave uwi first, a later page gave another uwi
C1_Witness ==
    /\ pc = "done"
    /\ Givers("uwi") # {}
    /\ \E k1, k2 \in 1..Len(merge_log) :
          /\ k1 < k2
          /\ k1 = Min(Givers("uwi"))
          /\ PointsOf(merge_log[k1]) = <<>>
          /\ ValueOf(merge_log[k2], "uwi") \notin {None, "", result["uwi"]}

\* C2: the returned point list is the concatenation, in processing order, of the
\* point lists of the pages that succeeded; its length is the sum of theirs
C2_PointsConcatenated ==
    pc = "done" =>
        LET lists == [k \in 1..Len(merge_log) |-> PointsOf(merge_log[k])]
        IN  /\ MergedPoints(result) = FlattenSeq(lists)
            /\ Len(MergedPoints(result)) = SumLen(lists)

\* C2 witness: two processed pages carry an identical point and both copies stay
C2_Witness ==
    /\ pc = "done"
    /\ \E k1, k2 \in 1..Len(merge_log) :
          /\ k1 < k2
          /\ \E p \in Range(PointsOf(merge_log[k1])) : p \in Range(PointsOf(merge_log[k2]))
    /\ \E a, b \in 1..Len(MergedPoints(result)) :
          a < b /\ MergedPoints(result)[a] = MergedPoints(result)[b]

\* C3: a metadata field no processed page gave a real value for is no key of the
\* returned record, and no metadata key of it maps to null or ""
C3_NoNullKeys ==
    pc = "done" =>
        /\ \A f \in MetadataFieldSet : Givers(f) = {} => f \notin DOMAIN result
        /\ \A k \in DOMAIN result \cap MetadataFieldSet : result[k] \notin {None, ""}

\* C3 witness: pages were merged, one gave operator as "" and none a real
\* operator, so the record has a uwi and no operator key
C3_Witness ==
    /\ pc = "done"
    /\ \E k \in 1..Len(merge_log) : ValueOf(merge_log[k], "operator") = ""
    /\ "uwi" \in DOMAIN result
    /\ "operator" \notin DOMAIN result

\* the merge step of a page whose extraction failed
C4_FailedPageStep ==
    (pc = "merge" /\ ExtractionFails(PageOf(page_no))) =>
        /\ all_survey_points' = all_survey_points
        /\ merged_metadata' = merged_metadata
        /\ pc' = "for" /\ i' = i + 1

\* at the return every index not skipped as too large has been merged
C4_AllMergedAtReturn == pc = "done" => Len(merge_log) + Len(warnings) = Len(IterSeq)

\* C4: a page whose extraction fails (backend error or schema rejection) leaves
\* the point list and the metadata map as they were, the loop goes on to the
\* next index, and a return finds every index that was not skipped merged
C4_FailureIsLocal == [][C4_FailedPageStep]_vars /\ []C4_AllMergedAtReturn

\* C4 witness: a failed page was merged and a later page still contributed
C4_Witness ==
    /\ pc = "done"
    /\ \E k1, k2 \in 1..Len(merge_log) :
          /\ k1 < k2
          /\ ExtractionFails(PageOf(merge_log[k1]))
          /\ PointsOf(merge_log[k2]) # <<>>
          /\ MergedPoints(result) = PointsOf(merge_log[k2])

\* the whole merge as a function of the page numbers processed, in order
RECURSIVE MergeFrom(_, _, _)
MergeFrom(ns, points, merged) ==
    IF ns = <<>> THEN CleanUp(merged, points)
    ELSE MergeFrom(Tail(ns),
                   points \o PagePoints(OutcomeOf(Head(ns))),
                   MergeMetadata(merged, PageMetadata(OutcomeOf(Head(ns)))))

MergeOfPages(ns) == MergeFrom(ns, <<>>, [f \in MetadataFieldSet |-> None])

InRange(idx) == idx >= 0 /\ idx < NumPages

NoNegativeIndex == \A k \in 1..Len(selected_page_indices) : selected_page_indices[k] >= 0

AllInRange == \A k \in 1..Len(selected_page_indices) : InRange(selected_page_indices[k])

IsAscending(s) == \A a, b \in 1..Len(s) : a < b => s[a] < s[b]

Selected == fn = "extract_selected_pages_survey"

\* C5 (as claimed): a recognizer failure on a selected page does not make the
\* document-level call fail; the page goes to extraction with empty text
C5_OcrFailureRecovered == OcrRaised => pc # "raised"

\* the merge step of a page whose backend record holds an undeclared field
C6_UndeclaredStep ==
    (pc = "merge" /\ HasUndeclaredField(PageOf(page_no))) =>
        /\ structured = EmptyDict
        /\ all_survey_points' = all_survey_points
        /\ merged_metadata' = merged_metadata

\* the record returned is the merge of the other processed pages
C6_UndeclaredAtReturn ==
    pc = "done" =>
        LET Declared(n) == ~HasUndeclaredField(PageOf(n))
        IN  result = MergeOfPages(SelectSeq(merge_log, Declared))

\* C6: a page whose backend record holds a field the schema does not declare, on
\* the record or on a point, comes out of the extraction as the failure {}; its
\* merge step changes neither accumulator and the record returned is the merge
\* of the other pages, so none of its points or metadata reach it
C6_UndeclaredFieldFails == [][C6_UndeclaredStep]_vars /\ []C6_UndeclaredAtReturn

\* C6 witness: pages with an undeclared record field and an undeclared point
\* field were both processed, and the record returned is empty
C6_Witness ==
    /\ pc = "done"
    /\ \E k1, k2 \in 1..Len(merge_log) :
          /\ \E k \in DOMAIN PageOf(merge_log[k1]).llm_output : k \notin DirectionalSurveyFields
          /\ DOMAIN PageOf(merge_log[k2]).llm_output = DirectionalSurveyFields
          /\ HasUndeclaredField(PageOf(merge_log[k2]))
    /\ result = EmptyDict

\* C7: with an empty selection extract_selected_pages_survey runs no OCR and no
\* extraction, cannot raise, and returns a record without points and without
\* metadata keys
C7_EmptySelection ==
    (Selected /\ selected_page_indices = <<>>) =>
        /\ ocr_log = <<>> /\ llm_log = <<>>
        /\ pc \in {"for", "done"}
        /\ pc = "for" => ENABLED ReturnMerged
        /\ pc = "done" =>
              /\ MergedPoints(result) = <<>>
              /\ DOMAIN result \cap MetadataFieldSet = {}

\* C7 witness: the call with no index has returned on a document that has pages
C7_Witness ==
    /\ Selected /\ selected_page_indices = <<>>
    /\ NumPages >= 2
    /\ pc = "done" /\ result = EmptyDict

\* C8: with no negative index in the selection, an index >= the page count is
\* reported and skipped without an IndexError, and the record returned is the
\* merge of the remaining indices in their order
C8_TooLargeSkipped ==
    (Selected /\ NoNegativeIndex) =>
        /\ pc = "raised" => OcrRaised
        /\ pc = "ocr" => InRange(selected_page_indices[i])
        /\ pc = "done" =>
              /\ result = MergeOfPages(SelectSeq(selected_page_indices, InRange))
              /\ warnings = SelectSeq(selected_page_indices, LAMBDA x : x >= NumPages)

\* C8 witness: an index past the end sat before a valid one whose page
\* contributed points to the record returned
C8_Witness ==
    /\ Selected /\ pc = "done" /\ NoNegativeIndex
    /\ Len(selected_page_indices) >= 2
    /\ selected_page_indices[1] >= NumPages
    /\ InRange(selected_page_indices[2])
    /\ warnings = <<selected_page_indices[1]>>
    /\ MergedPoints(result) # <<>>

\* C9 (as claimed): every selected index outside 0..(page count - 1), negative
\* ones included, causes no page to be processed and no fatal error
C9_OutOfRangeSkipped ==
    Selected =>
        /\ pc = "ocr" => InRange(selected_page_indices[i])
        /\ pc = "raised" => OcrRaised

\* C10 (as claimed): whatever the order of the indices in the selection, the
\* pages are merged in ascending page order
C10_MergedInAscendingOrder ==
    (Selected /\ AllInRange /\ pc = "done") =>
        result = MergeOfPages(sorted(selected_page_indices))

\* C10 (amended): the pages are merged in the order their indices have in the
\* selection, which is ascending page order when the list is ascending
C10_MergedInSelectionOrder ==
    (Selected /\ AllInRange /\ pc = "done") =>
        /\ merge_log = selected_page_indices
        /\ result = MergeOfPages(selected_page_indices)
        /\ IsAscending(selected_page_indices) => IsAscending(merge_log)

\* C10 witness: a selection in descending order was merged in that order and
\* the record differs from the one of the ascending order
C10_Witness ==
    /\ Selected /\ AllInRange /\ pc = "done"
    /\ Len(selected_page_indices) = 2
    /\ selected_page_indices[1] > selected_page_indices[2]
    /\ merge_log = selected_page_indices
    /\ result # MergeOfPages(sorted(selected_page_indices))

\* the merge as a function of nothing but the sequence of per-page outcomes
RECURSIVE MergeOutcomesFrom(_, _, _)
MergeOutcomesFrom(outs, points, merged) ==
    IF outs = <<>> THEN CleanUp(merged, points)
    ELSE MergeOutcomesFrom(Tail(outs),
                           points \o PagePoints(Head(outs)),
                           MergeMetadata(merged, PageMetadata(Head(outs))))

MergeOutcomes(outs) == MergeOutcomesFrom(outs, <<>>, [f \in MetadataFieldSet |-> None])

\* the outcomes of the pages merged, in the order they were merged
OutcomesMerged == [k \in 1..Len(merge_log) |-> OutcomeOf(merge_log[k])]

\* C11: the record returned is a function of the sequence of per-page outcomes
\* alone (same outcomes in the same order give the same keys, values and point
\* order), whichever function ran, whatever the page numbers, the page texts
\* and the indices skipped
C11_ResultFunctionOfOutcomes == pc = "done" => result = MergeOutcomes(OutcomesMerged)

\* C11 witness: the same page was merged twice and, like two pages with equal
\* outcomes, contributed its points twice
C11_Witness ==
    /\ pc = "done"
    /\ Len(merge_log) = 2
    /\ merge_log[1] = merge_log[2]
    /\ PointsOf(merge_log[1]) # <<>>
    /\ MergedPoints(result) = PointsOf(merge_log[1]) \o PointsOf(merge_log[1])

\* C12 (as claimed): the record returned always has a uwi key and a
\* survey_points key
C12_AlwaysUwiAndPoints ==
    pc = "done" => ("uwi" \in DOMAIN result /\ "survey_points" \in DOMAIN result)

\* C12 (amended): the record returned has a uwi key exactly when a merged page
\* gave a non-empty uwi, and a survey_points key exactly when a merged page gave
\* a point; with no page merged, or none that succeeded, it is the empty dict
C12_KeysOnlyWhenGiven ==
    pc = "done" =>
        /\ "uwi" \in DOMAIN result <=> Givers("uwi") # {}
        /\ "survey_points" \in DOMAIN result <=>
              (\E k \in 1..Len(merge_log) : PointsOf(merge_log[k]) # <<>>)
        /\ "survey_points" \in DOMAIN result => result["survey_points"] # <<>>
        /\ (\A k \in 1..Len(merge_log) : ~Succeeded(merge_log[k])) => result = EmptyDict

\* C12 witness: pages were processed, none succeeded, and the record returned
\* has neither key
C12_Witness ==
    /\ pc = "done"
    /\ merge_log # <<>>
    /\ \A k \in 1..Len(merge_log) : ~Succeeded(merge_log[k])
    /\ "uwi" \notin DOMAIN result
    /\ "survey_points" \notin DOMAIN result

IsPrefix(s, t) == Len(s) <= Len(t) /\ \A k \in 1..Len(s) : s[k] = t[k]

\* the recognizer starts on a page only when every page before it is merged
C17_OcrStartsAfterMerge == (ocr_log' # ocr_log) => (merge_log = ocr_log /\ llm_log = ocr_log)

\* merges follow extractions follow recognitions, at most one page is under way,
\* and the accumulated points are those of the merged pages in merge order
C17_OneCycleAtATime ==
    /\ IsPrefix(merge_log, llm_log) /\ IsPrefix(llm_log, ocr_log)
    /\ Len(ocr_log) <= Len(merge_log) + 1
    /\ pc \in {"for", "done"} => (merge_log = ocr_log /\ llm_log = ocr_log)
    /\ pc = "llm" => (ocr_log = Append(llm_log, page_no) /\ llm_log = merge_log)
    /\ pc = "merge" => (llm_log = Append(merge_log, page_no) /\ ocr_log = llm_log)
    /\ all_survey_points =
          FlattenSeq([k \in 1..Len(merge_log) |-> PagePoints(OutcomeOf(merge_log[k]))])

\* C17: pages are processed strictly one after another: the recognition, then the
\* extraction, then the merge of a page are all over before the recognition of
\* the next page starts, and the accumulators receive the pages in that order
C17_StrictlySequential == [][C17_OcrStartsAfterMerge]_vars /\ []C17_OneCycleAtATime

\* C17 witness: two different pages went through the three steps one after the
\* other and both reached the point list
C17_Witness ==
    /\ pc = "done"
    /\ Len(merge_log) = 2 /\ merge_log[1] # merge_log[2]
    /\ ocr_log = merge_log /\ llm_log = merge_log
    /\ PointsOf(merge_log[1]) # <<>> /\ PointsOf(merge_log[2]) # <<>>
    /\ Len(all_survey_points) = Len(PointsOf(merge_log[1])) + Len(PointsOf(merge_log[2]))

\* one step of the merge: the point list is extended at its end and a metadata
\* field that holds a real value keeps it
C18_StepOnlyGrows ==
    /\ IsPrefix(all_survey_points, all_survey_points')
    /\ \A f \in MetadataFieldSet :
          merged_metadata[f] \notin {None, ""} => merged_metadata'[f] = merged_metadata[f]

\* C18: during a merge the accumulators only grow: every step leaves the point
\* list a prefix of the new point list, and a metadata field that has taken a
\* non-null, non-empty value keeps that value for the rest of the processing
C18_AccumulatorsOnlyGrow == [][C18_StepOnlyGrows]_vars

\* C18 witness: a second page added points behind those of the first and offered
\* another operator, and the operator of the first page stayed
C18_Witness ==
    /\ Len(merge_log) = 2
    /\ PointsOf(merge_log[1]) # <<>>
    /\ Len(all_survey_points) > Len(PointsOf(merge_log[1]))
    /\ merged_metadata["operator"] = ValueOf(merge_log[1], "operator")
    /\ ValueOf(merge_log[2], "operator") \notin {None, "", merged_metadata["operator"]}

\* C20: when an exception leaves the page loop nothing is returned and no merged
\* JSON file is written, whatever was accumulated; the merged JSON file exists
\* only once extract_and_merge_survey has merged every page and returned, and
\* holds the record returned
C20_PartialResultsDiscarded ==
    /\ pc = "raised" => (result = EmptyDict /\ merged_json = NoFile)
    /\ merged_json.written =>
          /\ pc = "done" /\ fn = "extract_and_merge_survey"
          /\ merge_log = [j \in 1..NumPages |-> j - 1]
          /\ merged_json.content = result
    /\ fn = "extract_selected_pages_survey" => merged_json = NoFile

\* C20 witness: extract_and_merge_survey stopped on a later page with points and
\* metadata of an earlier page accumulated
C20_Witness ==
    /\ pc = "raised" /\ fn = "extract_and_merge_survey"
    /\ all_survey_points # <<>>
    /\ merged_metadata["uwi"] \notin {None, ""}
    /\ result = EmptyDict /\ merged_json = NoFile

\* ------------------------------------------------ the text aggregator on its own
MaxFrags == 3   \* fragments of a page: 0..MaxFrags

\* the fragments the recognizer is given to return: empty, blank, plain, with a
\* trailing blank, and with a newline of its own
Fragments == { <<>>, <<" ">>, <<"A">>, <<"B", " ">>, <<"C", "\n", "D">> }

\* the merge functions and the app are not running
MergeIdle ==
    /\ fn = "none" /\ pc = "idle"
    /\ i = 1 /\ page_no = -1
    /\ all_text = <<>> /\ structured = EmptyDict
    /\ all_page_texts = <<>> /\ all_survey_points = <<>>
    /\ merged_metadata = [f \in MetadataFieldSet |-> None]
    /\ result = EmptyDict /\ warnings = <<>>
    /\ ocr_log = <<>> /\ llm_log = <<>> /\ merge_log = <<>>
    /\ merged_json = NoFile

merge_vars == << fn, pages_data, selected_page_indices, pc, i, page_no, all_text,
                 structured, all_page_texts, all_survey_points, merged_metadata,
                 result, warnings, ocr_log, llm_log, merge_log, merged_json >>

\* either the recognizer has returned its fragments for a page (main.py 53-64), or
\* merge_text_blocks is called on a list of (poly, text) blocks of any content
InitText ==
    /\ MergeIdle /\ pages_data = <<>> /\ selected_page_indices = <<>>
    /\ AppIdle
    /\ \/ /\ tx_pc = "recognized"
          /\ tx_rec_texts \in SeqsUpTo(Fragments, MaxFrags)
          /\ tx_text_blocks = <<>>
       \/ /\ tx_pc = "call"
          /\ tx_rec_texts = <<>>
          /\ tx_text_blocks \in
                {[k \in 1..Len(ts) |-> <<k, ts[k]>>] : ts \in SeqsUpTo(Fragments, MaxFrags)}
    /\ tx_all_text = <<>>

\* main.py 336 (237): text_blocks, ocr_result = detect_and_ocr(img_pil)
TextDetectAndOcr ==
    /\ tx_pc = "recognized"
    /\ tx_text_blocks' = detect_and_ocr(tx_rec_texts)
    /\ tx_pc' = "blocks"
    /\ UNCHANGED << tx_rec_texts, tx_all_text, merge_vars, app_vars, sel_vars, conc_vars >>

\* main.py 337 (244): all_text = merge_text_blocks(text_blocks)
TextMergeBlocks ==
    /\ tx_pc = "blocks"
    /\ tx_all_text' = merge_text_blocks(tx_text_blocks)
    /\ tx_pc' = "text"
    /\ UNCHANGED << tx_rec_texts, tx_text_blocks, merge_vars, app_vars, sel_vars, conc_vars >>

\* main.py 120-123: merge_text_blocks called on its own
MergeTextBlocksCall ==
    /\ tx_pc = "call"
    /\ tx_all_text' = merge_text_blocks(tx_text_blocks)
    /\ tx_pc' = "returned"
    /\ UNCHANGED << tx_rec_texts, tx_text_blocks, merge_vars, app_vars, sel_vars, conc_vars >>

NextText == TextDetectAndOcr \/ TextMergeBlocks \/ MergeTextBlocksCall

SpecText == InitText /\ [][NextText]_vars

\* the texts of the blocks
BlockTexts == [k \in 1..Len(tx_text_blocks) |-> tx_text_blocks[k][2]]

\* where the text of block k starts in the joined string (0-based): after the
\* texts before it and one separator for each
RECURSIVE OffsetOf(_, _)
OffsetOf(texts, k) == IF k = 1 THEN 0 ELSE OffsetOf(texts, k - 1) + Len(texts[k - 1]) + 1

\* C13: merge_text_blocks returns the texts of its blocks in input order, each
\* unaltered at its place, with exactly one newline between two neighbours and
\* nothing else (none dropped, duplicated or reordered); for no block it
\* returns the empty string
C13_JoinedByNewlines ==
    tx_pc \in {"returned", "text"} =>
        LET texts == BlockTexts
            n == Len(texts)
        IN  /\ n = 0 => tx_all_text = <<>>
            /\ n > 0 => Len(tx_all_text) = SumLen(texts) + (n - 1)
            /\ \A k \in 1..n :
                  SubSeq(tx_all_text, OffsetOf(texts, k) + 1,
                         OffsetOf(texts, k) + Len(texts[k])) = texts[k]
            /\ \A k \in 1..(n - 1) :
                  tx_all_text[OffsetOf(texts, k) + Len(texts[k]) + 1] = "\n"

\* C13 witness: three blocks, an empty one in the middle and the first twice,
\* came back as one string with two separators
C13_Witness ==
    /\ tx_pc = "returned"
    /\ Len(tx_text_blocks) = 3
    /\ BlockTexts[2] = <<>> /\ BlockTexts[1] = BlockTexts[3] /\ BlockTexts[1] # <<>>
    /\ tx_all_text = BlockTexts[1] \o <<"\n", "\n">> \o BlockTexts[3]

\* C16 (as claimed): every fragment the recognizer returned is a block and is in
\* the page text; nothing is filtered out
C16_NoFragmentFiltered ==
    /\ tx_pc \in {"blocks", "text"} => BlockTexts = tx_rec_texts
    /\ tx_pc = "text" => tx_all_text = JoinLines(tx_rec_texts)

\* C16 (amended): the blocks are the fragments that hold a character other than
\* whitespace, once per occurrence, unaltered and in detection order; the empty
\* and the whitespace-only fragments are left out; the page text is the join of
\* the blocks
C16_NonBlankFragmentsKept ==
    /\ tx_pc \in {"blocks", "text"} =>
          LET n == Len(tx_text_blocks)
              pos(k) == tx_text_blocks[k][1]
          IN  /\ \A k \in 1..n :
                    /\ pos(k) \in 1..Len(tx_rec_texts)
                    /\ tx_text_blocks[k][2] = tx_rec_texts[pos(k)]
              /\ \A k1, k2 \in 1..n : k1 < k2 => pos(k1) < pos(k2)
              /\ \A j \in 1..Len(tx_rec_texts) :
                    (\E k \in 1..n : pos(k) = j) <=>
                        (\E c \in 1..Len(tx_rec_texts[j]) :
                            tx_rec_texts[j][c] \notin {" ", "\t", "\n"})
    /\ tx_pc = "text" => tx_all_text = JoinLines(BlockTexts)

\* C16 witness: the recognizer returned the same fragment twice with a blank one
\* between; both copies are in the page text and the blank one is not
C16_Witness ==
    /\ tx_pc = "text"
    /\ Len(tx_rec_texts) = 3
    /\ tx_rec_texts[1] = tx_rec_texts[3] /\ tx_rec_texts[1] = <<"B", " ">>
    /\ tx_rec_texts[2] = <<" ">>
    /\ tx_all_text = <<"B", " ", "\n", "B", " ">>

\* ------------------------------------------------------------- the Dash app
MaxEdits == 1   \* edits the user makes to the table and the form: 0..MaxEdits

\* app.py 546-550 (608-612): the sixteen form fields
meta_keys ==
    << "uwi", "operator", "vendor", "lease_location", "county", "contact_info",
       "map_zone", "map_system", "geo_datum", "system_datum", "shl_x", "shl_y",
       "datum_elevation", "ground_level_elevation", "job_number", "date_created" >>

MetaKeySet == Range(meta_keys)

\* app.py 688: desired_columns, which is also the order SurveyPoint declares
desired_columns == << "md", "inc", "azi", "tvd", "ns", "ew" >>

\* app.py 704-709: the metadata columns of the CSV
csv_metadata_fields ==
    << "operator", "vendor", "lease_location", "county", "contact_info", "map_zone",
       "map_system", "geo_datum", "system_datum", "shl_x", "shl_y", "datum_elevation",
       "ground_level_elevation", "job_number", "date_created" >>

\* dict.get(key, default)
GetOr(d, k, default) == IF k \in DOMAIN d THEN d[k] ELSE default

\* `if survey`: None and the empty dict are falsy
Truthy(store) == ~store.none /\ store.d # EmptyDict

\* main.py 291-371 as one call: the record returned, or an exception
RECURSIVE SelectedPagesRun(_, _, _, _)
SelectedPagesRun(pages, sel, points, merged) ==
    IF sel = <<>> THEN [raised |-> FALSE, value |-> CleanUp(merged, points)]
    ELSE IF IndexTooLarge(Head(sel), Len(pages))
         THEN SelectedPagesRun(pages, Tail(sel), points, merged)
    ELSE IF Head(sel) < -Len(pages) THEN [raised |-> TRUE, value |-> EmptyDict]
    ELSE LET page == pages[IF Head(sel) >= 0 THEN Head(sel) + 1
                           ELSE Len(pages) + Head(sel) + 1]
             all_text_ == merge_text_blocks(detect_and_ocr(page.rec_texts))
             structured_ == extract_survey_structured(page, all_text_)
         IN  IF page.ocr_raises THEN [raised |-> TRUE, value |-> EmptyDict]
             ELSE SelectedPagesRun(pages, Tail(sel),
                                   points \o PagePoints(structured_),
                                   MergeMetadata(merged, PageMetadata(structured_)))

extract_selected_pages_survey(pages, sel) ==
    SelectedPagesRun(pages, sel, <<>>, [f \in MetadataFieldSet |-> None])

\* float(x.get("md", 0))
MdOf(p) == GetOr(p, "md", 0)

RECURSIVE InsertByMd(_, _)
\* p goes behind every element whose md is not larger (the sort is stable)
InsertByMd(s, p) ==
    IF s = <<>> THEN <<p>>
    ELSE IF MdOf(s[Len(s)]) <= MdOf(p) THEN Append(s, p)
    ELSE Append(InsertByMd(SubSeq(s, 1, Len(s) - 1), p), s[Len(s)])

RECURSIVE SortedByMdFrom(_, _)
SortedByMdFrom(done, rest) ==
    IF rest = <<>> THEN done
    ELSE SortedByMdFrom(InsertByMd(done, Head(rest)), Tail(rest))

\* app.py 541 (623): sorted(points, key=lambda x: float(x.get("md", 0)))
SortedByMd(points) == SortedByMdFrom(<<>>, points)

\* the keys of a point dict in their order: the declared ones, then others
KeysOf(p) == SelectSeq(desired_columns \o <<"x">>, LAMBDA k : k \in DOMAIN p)

\* app.py 533-544 (615-626): table columns and data of a survey
TableOf(survey) ==
    IF survey # EmptyDict /\ "survey_points" \in DOMAIN survey /\ survey["survey_points"] # <<>>
    THEN [columns |-> KeysOf(survey["survey_points"][1]),
          data |-> SortedByMd(survey["survey_points"])]
    ELSE [columns |-> <<>>, data |-> <<>>]

\* the pages the app is given in a document
AppPageOutcomes ==
    { Page(TRUE, <<>>, TRUE, EmptyDict),
      Page(FALSE, TextMD, TRUE, EmptyDict),
      Page(FALSE, TextMD, FALSE,
           [Raw("XYZ", "OpA", <<Pt(100)>>) EXCEPT !["method"] = "MCM"]),
      Page(FALSE, <<>>, FALSE, Raw("", "OpB", <<Pt(100), Pt(200)>>)) }

\* app.py 486-494: the indices of the checked checkboxes in ascending order; the
\* id of the checkbox at position j carries the index j - 1
CheckedIndices(values) ==
    sorted(SelectSeq([j \in 1..Len(values) |-> j - 1], LAMBDA idx : values[idx + 1]))

\* the app after a PDF upload (app.py 316-362), which stores the pages, and after
\* the user has left ticked the leading pages wanted (app.py 481-494); the survey
\* store is None, the table is empty, the form inputs have no value
InitApp ==
    /\ MergeIdle
    /\ TextIdle
    /\ pages_data \in SeqsUpTo(AppPageOutcomes, MaxPages)
    /\ \E ticked \in 0..Len(pages_data) :
          checkbox_values = [j \in 1..Len(pages_data) |-> j <= ticked]
    /\ selected_page_indices = CheckedIndices(checkbox_values)
    /\ survey_store = StoreNone
    /\ table_columns = <<>>
    /\ table_data = <<>>
    /\ form_values = [k \in MetaKeySet |-> None]
    /\ table_changed = FALSE
    /\ edits = 0
    /\ processed_survey = StoreNone
    /\ shared_csv = NoCsv
    /\ csv_download = NoCsv
    /\ process_btn = ProcessBtnEnabled
    /\ checkbox_changed = FALSE
    /\ inflight = {}
    /\ handled = <<>>

text_and_merge_vars == << text_vars, merge_vars >>

\* the session modelled ends with the export of a CSV
NoExportYet == shared_csv = NoCsv /\ csv_download = NoCsv

\* the locals and files of the merge functions, which no callback of the app holds
merge_locals == << fn, pc, i, page_no, all_text, structured, all_page_texts,
                   all_survey_points, merged_metadata, result, warnings,
                   ocr_log, llm_log, merge_log, merged_json >>

\* the callbacks run one after the other: a user event is taken when no callback
\* set off by an earlier one is still due
NoCallbackDue == ~table_changed /\ ~checkbox_changed


RECURSIVE SelectedPagesCalls(_, _, _)
\* main.py 322-338: the pages on which the run calls the recognizer (ocr) and
\* the backend (llm), in the order of the calls
SelectedPagesCalls(pages, sel, calls) ==
    IF sel = <<>> THEN calls
    ELSE IF IndexTooLarge(Head(sel), Len(pages))
         THEN SelectedPagesCalls(pages, Tail(sel), calls)
    ELSE IF Head(sel) < -Len(pages) THEN calls
    ELSE LET n == IF Head(sel) >= 0 THEN Head(sel) ELSE Len(pages) + Head(sel)
         IN  IF pages[n + 1].ocr_raises THEN [calls EXCEPT !.ocr = Append(@, n)]
             ELSE SelectedPagesCalls(pages, Tail(sel),
                                     [ocr |-> Append(calls.ocr, n),
                                      llm |-> Append(calls.llm, n)])

\* what a run of extract_selected_pages_survey leaves unchanged in the app
run_frame == << fn, pages_data, selected_page_indices, pc, i, page_no, all_text,
               structured, all_page_texts, all_survey_points, merged_metadata,
               result, warnings, merge_log, merged_json >>

\* mutant: the early return of app.py 525-526 is dropped
ProcessSelectedPagesUnguarded ==
    /\ NoCallbackDue /\ NoExportYet
    /\ LET run == extract_selected_pages_survey(pages_data, selected_page_indices)
           calls == SelectedPagesCalls(pages_data, selected_page_indices,
                                       [ocr |-> <<>>, llm |-> <<>>])
           survey == run.value
       IN  /\ ocr_log' = calls.ocr
           /\ llm_log' = calls.llm
           /\ IF run.raised
              THEN /\ survey_store' = Store([error |-> "exception"])
                   /\ processed_survey' = Store([error |-> "exception"])
                   /\ process_btn' = ProcessBtnEnabled
                   /\ UNCHANGED << table_columns, table_data, form_values,
                                   table_changed, edits, shared_csv, csv_download >>
              ELSE /\ survey_store' = Store(survey)
                   /\ processed_survey' = Store(survey)
                   /\ table_columns' = TableOf(survey).columns
                   /\ table_data' = TableOf(survey).data
                   /\ form_values' =
                         [k \in MetaKeySet |->
                             IF survey # EmptyDict THEN GetOr(survey, k, "") ELSE ""]
                   /\ table_changed' = TRUE
                   /\ process_btn' = ProcessBtnEnabled
                   /\ UNCHANGED << edits, shared_csv, csv_download >>
    /\ UNCHANGED << run_frame, text_vars, sel_vars, conc_vars >>

\* mutant: when the run raises, the store is left as it was
ProcessSelectedPagesErrorKeepsStore ==
    /\ NoCallbackDue /\ NoExportYet
    /\ IF pages_data = <<>> \/ selected_page_indices = <<>>
       THEN UNCHANGED << app_vars, ocr_log, llm_log >>
       ELSE LET run == extract_selected_pages_survey(pages_data, selected_page_indices)
                calls == SelectedPagesCalls(pages_data, selected_page_indices,
                                            [ocr |-> <<>>, llm |-> <<>>])
                survey == run.value
            IN  /\ ocr_log' = calls.ocr
                /\ llm_log' = calls.llm
                /\ IF run.raised
                   THEN /\ process_btn' = ProcessBtnEnabled
                        /\ UNCHANGED << survey_store, processed_survey, table_columns,
                                        table_data, form_values, table_changed, edits,
                                        shared_csv, csv_download >>
                   ELSE /\ survey_store' = Store(survey)
                        /\ processed_survey' = Store(survey)
                        /\ table_columns' = TableOf(survey).columns
                        /\ table_data' = TableOf(survey).data
                        /\ form_values' =
                              [k \in MetaKeySet |->
                                  IF survey # EmptyDict THEN GetOr(survey, k, "") ELSE ""]
                        /\ table_changed' = TRUE
                        /\ process_btn' = ProcessBtnEnabled
                        /\ UNCHANGED << edits, shared_csv, csv_download >>
    /\ UNCHANGED << run_frame, text_vars, sel_vars, conc_vars >>

\* app.py 524-558: process_selected_pages on a click of Process.  ocr_log and
\* llm_log hold the calls of the run the click started
ProcessSelectedPages ==
    /\ NoCallbackDue /\ NoExportYet
    /\ IF pages_data = <<>> \/ selected_page_indices = <<>>
       THEN UNCHANGED << app_vars, ocr_log, llm_log >>
       ELSE LET run == extract_selected_pages_survey(pages_data, selected_page_indices)
                calls == SelectedPagesCalls(pages_data, selected_page_indices,
                                            [ocr |-> <<>>, llm |-> <<>>])
                survey == run.value
            IN  /\ ocr_log' = calls.ocr
                /\ llm_log' = calls.llm
                /\ IF run.raised
                   THEN /\ survey_store' = Store([error |-> "exception"])
                        /\ processed_survey' = Store([error |-> "exception"])
                        /\ process_btn' = ProcessBtnEnabled
                        /\ UNCHANGED << table_columns, table_data, form_values,
                                        table_changed, edits, shared_csv, csv_download >>
                   ELSE /\ survey_store' = Store(survey)
                        /\ processed_survey' = Store(survey)
                        /\ table_columns' = TableOf(survey).columns
                        /\ table_data' = TableOf(survey).data
                        /\ form_values' =
                              [k \in MetaKeySet |->
                                  IF survey # EmptyDict THEN GetOr(survey, k, "") ELSE ""]
                        /\ table_changed' = TRUE
                        /\ process_btn' = ProcessBtnEnabled
                        /\ UNCHANGED << edits, shared_csv, csv_download >>
    /\ UNCHANGED << run_frame, text_vars, sel_vars, conc_vars >>

\* mutant: the table rows are appended to the stored points
UpdateSurveyFromTableAppends ==
    /\ table_changed
    /\ survey_store' =
          IF Truthy(survey_store)
          THEN Store(("survey_points" :>
                        (GetOr(survey_store.d, "survey_points", <<>>) \o table_data))
                     @@ survey_store.d)
          ELSE survey_store
    /\ table_changed' = FALSE
    /\ UNCHANGED << table_columns, table_data, form_values, edits, processed_survey,
                    shared_csv, csv_download >>
    /\ UNCHANGED << process_btn, text_and_merge_vars, sel_vars, conc_vars >>

\* app.py 561-571: update_survey_from_table, run when survey-table.data was set by
\* a callback or edited by the user
UpdateSurveyFromTable ==
    /\ table_changed
    /\ survey_store' =
          IF Truthy(survey_store)
          THEN Store(("survey_points" :> table_data) @@ survey_store.d)
          ELSE survey_store
    /\ table_changed' = FALSE
    /\ UNCHANGED << table_columns, table_data, form_values, edits, processed_survey,
                    shared_csv, csv_download >>
    /\ UNCHANGED << process_btn, text_and_merge_vars, sel_vars, conc_vars >>

\* the values the user types into a cell or a form input
EditMd == {150}

EditText == {"NEW"}

\* app.py 247 editable=True: the user changes the md of a row
EditTableCell ==
    /\ NoCallbackDue /\ NoExportYet /\ edits < MaxEdits
    /\ \E r \in 1..Len(table_data) : \E v \in EditMd :
          table_data' = [table_data EXCEPT ![r] = [@ EXCEPT !["md"] = v]]
    /\ table_changed' = TRUE
    /\ edits' = edits + 1
    /\ UNCHANGED << survey_store, table_columns, form_values, processed_survey,
                    shared_csv, csv_download >>
    /\ UNCHANGED << process_btn, text_and_merge_vars, sel_vars, conc_vars >>

\* app.py 248 row_deletable=True: the user deletes a row
DeleteTableRow ==
    /\ NoCallbackDue /\ NoExportYet /\ edits < MaxEdits
    /\ \E r \in 1..Len(table_data) :
          table_data' = [k \in 1..(Len(table_data) - 1) |->
                            IF k < r THEN table_data[k] ELSE table_data[k + 1]]
    /\ table_changed' = TRUE
    /\ edits' = edits + 1
    /\ UNCHANGED << survey_store, table_columns, form_values, processed_survey,
                    shared_csv, csv_download >>
    /\ UNCHANGED << process_btn, text_and_merge_vars, sel_vars, conc_vars >>

\* app.py 169: the user types into the uwi input of the form
EditForm ==
    /\ NoCallbackDue /\ NoExportYet /\ edits < MaxEdits
    /\ \E v \in EditText : form_values' = [form_values EXCEPT !["uwi"] = v]
    /\ edits' = edits + 1
    /\ UNCHANGED << survey_store, table_columns, table_data, table_changed,
                    processed_survey, shared_csv, csv_download >>
    /\ UNCHANGED << process_btn, text_and_merge_vars, sel_vars, conc_vars >>

\* mutant: a blank form value leaves the key of the survey as it was
UpdateMetadataSkipsBlank ==
    /\ NoCallbackDue /\ NoExportYet
    /\ \/ /\ ~Truthy(survey_store)
          /\ UNCHANGED app_vars
       \/ /\ Truthy(survey_store)
          /\ LET survey == [k \in DOMAIN survey_store.d \cup
                                  {f \in MetaKeySet : form_values[f] \notin {None, ""}} |->
                              IF k \in MetaKeySet /\ form_values[k] \notin {None, ""}
                              THEN form_values[k]
                              ELSE survey_store.d[k]]
             IN  /\ survey_store' = Store(survey)
                 /\ table_columns' = TableOf(survey).columns
                 /\ table_data' = TableOf(survey).data
          /\ table_changed' = TRUE
          /\ UNCHANGED << form_values, edits, processed_survey, shared_csv, csv_download >>
    /\ UNCHANGED << process_btn, text_and_merge_vars, sel_vars, conc_vars >>

\* app.py 599-630: update_metadata on a click of Submit Form
UpdateMetadata ==
    /\ NoCallbackDue /\ NoExportYet
    /\ \/ /\ ~Truthy(survey_store)
          /\ UNCHANGED app_vars
       \/ /\ Truthy(survey_store)
          /\ LET survey == [k \in DOMAIN survey_store.d \cup MetaKeySet |->
                              IF k \in MetaKeySet THEN form_values[k]
                              ELSE survey_store.d[k]]
             IN  /\ survey_store' = Store(survey)
                 /\ table_columns' = TableOf(survey).columns
                 /\ table_data' = TableOf(survey).data
          /\ table_changed' = TRUE
          /\ UNCHANGED << form_values, edits, processed_survey, shared_csv, csv_download >>
    /\ UNCHANGED << process_btn, text_and_merge_vars, sel_vars, conc_vars >>

RECURSIVE DfColumnsFrom(_, _)
DfColumnsFrom(acc, points) ==
    IF points = <<>> THEN acc
    ELSE DfColumnsFrom(acc \o SelectSeq(KeysOf(Head(points)), LAMBDA k : k \notin Range(acc)),
                       Tail(points))

\* app.py 685: pd.DataFrame(survey_points), columns in order of first appearance
DfColumns(points) == DfColumnsFrom(<<>>, points)

\* DataFrame.to_csv: a string is written as it is, None as the empty string
CsvText(v) == IF v = None THEN "" ELSE v

\* ... the number of a point in decimal, the value a point lacks (NaN) as the
\* empty string
CsvNumber(point, k) == IF k \in DOMAIN point THEN ToString(point[k]) ELSE ""

\* mutant: the metadata columns come before the point columns
CsvOfMetadataFirst(survey) ==
    LET points == survey["survey_points"]
        columns == <<"uwi">> \o csv_metadata_fields \o desired_columns
        CellAt(r, c) ==
            IF columns[c] \in Range(desired_columns) THEN CsvNumber(points[r], columns[c])
            ELSE CsvText(GetOr(survey, columns[c], ""))
    IN  [columns |-> columns,
         rows |-> [r \in 1..Len(points) |-> [c \in 1..Len(columns) |-> CellAt(r, c)]]]

\* app.py 684-717: the CSV of a survey with points, as header and rows of cells
CsvOf(survey) ==
    LET points == survey["survey_points"]
        df_columns == DfColumns(points)
        existing_columns == SelectSeq(desired_columns, LAMBDA c : c \in Range(df_columns))
        other_columns == SelectSeq(df_columns, LAMBDA c : c \notin Range(desired_columns))
        final_columns == IF existing_columns # <<>> THEN existing_columns \o other_columns
                         ELSE df_columns
        columns == <<"uwi">> \o final_columns \o csv_metadata_fields
        CellAt(r, c) ==
            IF c = 1 THEN CsvText(GetOr(survey, "uwi", ""))
            ELSE IF c <= 1 + Len(final_columns) THEN CsvNumber(points[r], columns[c])
            ELSE CsvText(GetOr(survey, columns[c], ""))
    IN  [columns |-> columns,
         rows |-> [r \in 1..Len(points) |-> [c \in 1..Len(columns) |-> CellAt(r, c)]]]

\* mutant: after the write to the shared folder the CSV is sent to the browser too
DownloadCsvWithBoth(available, write_ok) ==
    /\ NoCallbackDue
    /\ \/ /\ \/ ~Truthy(survey_store)
             \/ GetOr(survey_store.d, "survey_points", <<>>) = <<>>
          /\ UNCHANGED app_vars
       \/ /\ Truthy(survey_store)
          /\ GetOr(survey_store.d, "survey_points", <<>>) # <<>>
          /\ available /\ write_ok
          /\ shared_csv' = CsvOf(survey_store.d)
          /\ csv_download' = CsvOf(survey_store.d)
          /\ UNCHANGED << survey_store, table_columns, table_data, form_values,
                          table_changed, edits, processed_survey >>
       \/ /\ Truthy(survey_store)
          /\ GetOr(survey_store.d, "survey_points", <<>>) # <<>>
          /\ ~(available /\ write_ok)
          /\ csv_download' = CsvOf(survey_store.d)
          /\ shared_csv' \in (IF available THEN {shared_csv, NoCsv} ELSE {shared_csv})
          /\ UNCHANGED << survey_store, table_columns, table_data, form_values,
                          table_changed, edits, processed_survey >>
    /\ UNCHANGED << process_btn, text_and_merge_vars, sel_vars, conc_vars >>

\* app.py 673-792: download_csv on a click of Download CSV, the shared folder
\* being available or not and the write to it succeeding or raising (the file
\* is then left as it was or empty)
DownloadCsvWith(available, write_ok) ==
    /\ NoCallbackDue
    /\ \/ /\ \/ ~Truthy(survey_store)
             \/ GetOr(survey_store.d, "survey_points", <<>>) = <<>>
          /\ UNCHANGED app_vars
       \/ /\ Truthy(survey_store)
          /\ GetOr(survey_store.d, "survey_points", <<>>) # <<>>
          /\ available /\ write_ok
          /\ shared_csv' = CsvOf(survey_store.d)
          /\ UNCHANGED << survey_store, table_columns, table_data, form_values,
                          table_changed, edits, processed_survey, csv_download >>
       \/ /\ Truthy(survey_store)
          /\ GetOr(survey_store.d, "survey_points", <<>>) # <<>>
          /\ ~(available /\ write_ok)
          /\ csv_download' = CsvOf(survey_store.d)
          /\ shared_csv' \in (IF available THEN {shared_csv, NoCsv} ELSE {shared_csv})
          /\ UNCHANGED << survey_store, table_columns, table_data, form_values,
                          table_changed, edits, processed_survey >>
    /\ UNCHANGED << process_btn, text_and_merge_vars, sel_vars, conc_vars >>

DownloadCsv == \E available, write_ok \in BOOLEAN : DownloadCsvWith(available, write_ok)

\* ------------------------------------------------- upload and page selection
\* the app as laid out (app.py 124-127, 169-229, 243-254): no pages, nothing
\* selected, no survey, an empty table, form inputs without a value
InitSelect ==
    /\ MergeIdle
    /\ TextIdle
    /\ pages_data = <<>>
    /\ selected_page_indices = <<>>
    /\ survey_store = StoreNone
    /\ table_columns = <<>>
    /\ table_data = <<>>
    /\ form_values = [k \in MetaKeySet |-> None]
    /\ table_changed = FALSE
    /\ edits = 0
    /\ processed_survey = StoreNone
    /\ shared_csv = NoCsv
    /\ csv_download = NoCsv
    /\ process_btn = ProcessBtnEnabled
    /\ checkbox_values = <<>>
    /\ checkbox_changed = FALSE
    /\ inflight = {}
    /\ handled = <<>>

\* mutant: a failed upload leaves the selection as it was
HandlePdfUploadKeepsSelection ==
    /\ NoCallbackDue
    /\ \/ /\ pages_data' = <<>>
          /\ UNCHANGED selected_page_indices
          /\ checkbox_values' = <<>>
          /\ checkbox_changed' \in BOOLEAN
       \/ \E images \in SeqsUpTo(AppPageOutcomes, MaxPages) :
             /\ pages_data' = images
             /\ selected_page_indices' = [j \in 1..Len(images) |-> j - 1]
             /\ checkbox_values' = [j \in 1..Len(images) |-> TRUE]
             /\ checkbox_changed' \in BOOLEAN
    /\ UNCHANGED << merge_locals, text_vars, app_vars, conc_vars >>

\* app.py 316-362: handle_pdf_upload.  Without contents, or when the conversion
\* raises, the pages store is None, nothing is selected and the viewer is gone;
\* otherwise the pages are stored, all are selected and the viewer shows a checked
\* checkbox for each (app.py 398-403).  Whether the new set of checkboxes sets off
\* their callback is left open
HandlePdfUpload ==
    /\ NoCallbackDue
    /\ \/ /\ pages_data' = <<>>
          /\ selected_page_indices' = <<>>
          /\ checkbox_values' = <<>>
          /\ checkbox_changed' \in BOOLEAN
       \/ \E images \in SeqsUpTo(AppPageOutcomes, MaxPages) :
             /\ pages_data' = images
             /\ selected_page_indices' = [j \in 1..Len(images) |-> j - 1]
             /\ checkbox_values' = [j \in 1..Len(images) |-> TRUE]
             /\ checkbox_changed' \in BOOLEAN
    /\ UNCHANGED << merge_locals, text_vars, app_vars, conc_vars >>

\* app.py 451-471: select_deselect_all on a click of Select All or Deselect All,
\* buttons that exist while the viewer shows pages (app.py 380-383)
SelectDeselectAll ==
    /\ NoCallbackDue /\ NoExportYet
    /\ pages_data # <<>>
    /\ \E button_id \in {"select-all-btn", "deselect-all-btn"} :
          IF pages_data = <<>>
          THEN /\ checkbox_values' = <<>>
               /\ selected_page_indices' = <<>>
          ELSE IF button_id = "select-all-btn"
          THEN /\ checkbox_values' = [j \in 1..Len(pages_data) |-> TRUE]
               /\ selected_page_indices' = [j \in 1..Len(pages_data) |-> j - 1]
          ELSE /\ checkbox_values' = [j \in 1..Len(pages_data) |-> FALSE]
               /\ selected_page_indices' = <<>>
    /\ checkbox_changed' = TRUE
    /\ UNCHANGED << pages_data, merge_locals, text_vars, app_vars, conc_vars >>

\* app.py 398-403: the user ticks or unticks the checkbox of a page
ToggleCheckbox ==
    /\ NoCallbackDue
    /\ \E j \in 1..Len(checkbox_values) :
          checkbox_values' = [checkbox_values EXCEPT ![j] = ~@]
    /\ checkbox_changed' = TRUE
    /\ UNCHANGED << pages_data, selected_page_indices, merge_locals, text_vars,
                    app_vars, conc_vars >>

\* app.py 481-494: update_page_selection_from_checkboxes
UpdatePageSelectionFromCheckboxes ==
    /\ checkbox_changed
    /\ selected_page_indices' =
          IF pages_data = <<>> THEN <<>> ELSE CheckedIndices(checkbox_values)
    /\ checkbox_changed' = FALSE
    /\ UNCHANGED << pages_data, checkbox_values, merge_locals, text_vars, app_vars,
                    conc_vars >>

NextSelect ==
    \/ HandlePdfUpload
    \/ SelectDeselectAll
    \/ ToggleCheckbox
    \/ UpdatePageSelectionFromCheckboxes

SpecSelect == InitSelect /\ [][NextSelect]_vars

NextApp ==
    \/ ProcessSelectedPages
    \/ UpdateSurveyFromTable
    \/ EditTableCell
    \/ DeleteTableRow
    \/ EditForm
    \/ UpdateMetadata
    \/ DownloadCsv
    \/ SelectDeselectAll
    \/ UpdatePageSelectionFromCheckboxes

SpecApp == InitApp /\ [][NextApp]_vars

\* the point list of the stored survey
StoredPoints == IF survey_store.none THEN <<>> ELSE GetOr(survey_store.d, "survey_points", <<>>)

\* C14 (as claimed): as long as the user has edited nothing, the points in the
\* survey store are in the order the merge returned them to the last Process
C14_StoredInMergeOrder ==
    (edits = 0 /\ ~processed_survey.none) =>
        StoredPoints = GetOr(processed_survey.d, "survey_points", <<>>)

\* C14 witness: the merge returned points that are not ascending in md, the table
\* shows them sorted, and the callback of the table has run
C14_Witness ==
    /\ edits = 0 /\ ~table_changed
    /\ ~processed_survey.none
    /\ GetOr(processed_survey.d, "survey_points", <<>>) # <<>>
    /\ table_data # GetOr(processed_survey.d, "survey_points", <<>>)

\* the CSVs a step delivers, to the shared folder or to the browser
Delivered ==
    {csv \in {shared_csv', csv_download'} :
        /\ csv # NoCsv
        /\ \/ csv = shared_csv' /\ shared_csv' # shared_csv
           \/ csv = csv_download' /\ csv_download' # csv_download}

\* what the claim says of one CSV made from the stored survey
C15_CsvAsClaimed(csv, survey) ==
    LET points == survey["survey_points"]
        extras == SelectSeq(DfColumns(points), LAMBDA k : k \notin SurveyPointFields)
        n_meta == Len(csv_metadata_fields)
    IN  (\A r \in 1..Len(points) : SurveyPointFields \subseteq DOMAIN points[r]) =>
            /\ Len(csv.rows) = Len(points)
            /\ csv.columns = <<"uwi", "md", "inc", "azi", "tvd", "ns", "ew">>
                                \o extras \o csv_metadata_fields
            /\ \A r \in 1..Len(points) :
                  /\ Len(csv.rows[r]) = Len(csv.columns)
                  /\ csv.rows[r][1] = CsvText(GetOr(survey, "uwi", ""))
                  /\ \A c \in 2..7 : csv.rows[r][c] = ToString(points[r][csv.columns[c]])
                  /\ \A m \in 1..n_meta :
                        /\ csv.rows[r][7 + Len(extras) + m] =
                              CsvText(GetOr(survey, csv_metadata_fields[m], ""))
                        /\ csv.rows[r][7 + Len(extras) + m] = csv.rows[1][7 + Len(extras) + m]

\* C15: for a survey whose points all carry the six canonical fields, the CSV
\* download_csv delivers has one row per stored point, in stored order, and the
\* columns uwi, md, inc, azi, tvd, ns, ew, then the extra point fields, then the
\* fifteen metadata fields, each with the same value on every row
C15_CsvLayout == [][\A csv \in Delivered : C15_CsvAsClaimed(csv, survey_store.d)]_vars

\* C15 witness: a CSV of two rows with differing md, the uwi and the operator of
\* the survey on both, was sent to the browser
C15_Witness ==
    /\ csv_download # NoCsv
    /\ Len(csv_download.rows) = 2
    /\ csv_download.rows[1][2] # csv_download.rows[2][2]
    /\ csv_download.rows[1][1] = "XYZ" /\ csv_download.rows[2][1] = "XYZ"
    /\ csv_download.rows[1][8] = "OpA" /\ csv_download.rows[2][8] = "OpA"

\* the step of update_survey_from_table
C19_TableStep ==
    (table_changed /\ ~table_changed') =>
        IF Truthy(survey_store)
        THEN /\ ~survey_store'.none
             /\ DOMAIN survey_store'.d = DOMAIN survey_store.d \cup {"survey_points"}
             /\ survey_store'.d["survey_points"] = table_data
             /\ \A k \in DOMAIN survey_store.d \ {"survey_points"} :
                   survey_store'.d[k] = survey_store.d[k]
             /\ table_data' = table_data
        ELSE survey_store' = survey_store

\* C19: update_survey_from_table replaces the stored survey_points with the
\* complete table data and leaves every other key of the stored survey as it
\* was; when the store holds no survey (None or {}) the store is left unchanged
C19_TableReplacesPoints == [][C19_TableStep]_vars

\* C19 witness: the user changed a cell, the store holds the table with the
\* changed row in place of the points the merge returned, and still its uwi
C19_Witness ==
    /\ edits > 0 /\ ~table_changed
    /\ Truthy(survey_store)
    /\ StoredPoints = table_data
    /\ \E r \in 1..Len(table_data) : table_data[r]["md"] \in EditMd
    /\ StoredPoints # GetOr(processed_survey.d, "survey_points", <<>>)
    /\ "uwi" \in DOMAIN survey_store.d
    /\ survey_store.d["uwi"] = GetOr(processed_survey.d, "uwi", "")

\* C21: every key of the record returned is one of the 24 metadata field names
\* or survey_points, survey_points is a key exactly when at least one point was
\* accumulated, and a key a page supplied outside that set is no key of the record
C21_KeysAreDeclared ==
    pc = "done" =>
        /\ DOMAIN result \subseteq MetadataFieldSet \cup {"survey_points"}
        /\ "survey_points" \in DOMAIN result <=> all_survey_points # <<>>
        /\ \A k \in 1..Len(merge_log) :
              \A key \in DOMAIN PageOf(merge_log[k]).llm_output :
                  key \notin MetadataFieldSet \cup {"survey_points"} => key \notin DOMAIN result

\* C21 witness: a page that supplied the key well_name and a page that succeeded
\* were merged; the record has metadata and points and no well_name
C21_Witness ==
    /\ pc = "done"
    /\ \E k \in 1..Len(merge_log) : "well_name" \in DOMAIN PageOf(merge_log[k]).llm_output
    /\ Cardinality(MetadataFieldSet) = 24
    /\ {"uwi", "operator", "survey_points"} \subseteq DOMAIN result
    /\ "well_name" \notin DOMAIN result

\* every page of the document, in page order
AllPages == [j \in 1..NumPages |-> j - 1]

\* C22: on an n-page document extract_and_merge_survey and
\* extract_selected_pages_survey called with [0, ..., n-1] end alike: both raise
\* when the call on that selection raises, and otherwise both return the record
\* that call returns
C22_WholeEqualsAllSelected ==
    (fn = "extract_and_merge_survey" \/ selected_page_indices = AllPages) =>
        LET run == extract_selected_pages_survey(pages_data, AllPages)
        IN  /\ pc = "raised" => run.raised
            /\ pc = "done" => (~run.raised /\ result = run.value)

\* C22 witness: extract_and_merge_survey returned, for two pages of different
\* outcomes, a record with the points of both that the reverse order would not give
C22_Witness ==
    /\ fn = "extract_and_merge_survey" /\ pc = "done"
    /\ NumPages = 2
    /\ PointsOf(0) # <<>> /\ PointsOf(1) # <<>> /\ PointsOf(0) # PointsOf(1)
    /\ MergedPoints(result) = PointsOf(0) \o PointsOf(1)
    /\ result # MergeOfPages(<<1, 0>>)

\* C24: whatever uploads, Select All, Deselect All and checkbox changes were
\* handled, the selected-pages store is a strictly ascending list (so without
\* duplicates) of indices within 0..(page count - 1) of the document stored, and
\* it is empty when no pages are stored
C24_SelectionWellFormed ==
    /\ IsAscending(selected_page_indices)
    /\ \A k \in 1..Len(selected_page_indices) : InRange(selected_page_indices[k])
    /\ pages_data = <<>> => selected_page_indices = <<>>

\* C24 witness: of two pages the user unticked the first and the store holds
\* the second alone
C24_Witness ==
    /\ NumPages = 2
    /\ checkbox_values = <<FALSE, TRUE>> /\ ~checkbox_changed
    /\ selected_page_indices = <<1>>

\* C25: a Process click with no stored pages or with nothing selected changes
\* nothing: the survey store, the table columns and data, the sixteen form values
\* and the button keep their values, and neither the recognizer nor the backend
\* is called (the logs of the last run stay as they are)
C25_EmptyProcessChangesNothing ==
    [][(ProcessSelectedPages /\ (pages_data = <<>> \/ selected_page_indices = <<>>))
          => UNCHANGED << survey_store, table_columns, table_data, form_values,
                          process_btn, ocr_log, llm_log >>]_vars

\* C25 witness: pages are stored, a survey was processed from them and is shown
\* in table and form, then everything was deselected; Process can be clicked
C25_Witness ==
    /\ pages_data # <<>> /\ selected_page_indices = <<>>
    /\ NoCallbackDue /\ NoExportYet
    /\ Truthy(survey_store) /\ table_data # <<>>
    /\ form_values["uwi"] = "XYZ"
    /\ ocr_log # <<>> /\ llm_log # <<>>

\* C26: when the run of the selected pages raises, the survey store becomes a
\* record with the one key error, the table and the form values stay as they
\* are, the button is enabled with its label, and a survey stored before is gone
C26_RaisingRunStoresError ==
    [][(/\ ProcessSelectedPages
        /\ pages_data # <<>> /\ selected_page_indices # <<>>
        /\ extract_selected_pages_survey(pages_data, selected_page_indices).raised)
          => /\ ~survey_store'.none
             /\ DOMAIN survey_store'.d = {"error"}
             /\ UNCHANGED << table_columns, table_data, form_values >>
             /\ process_btn' = ProcessBtnEnabled
             /\ (Truthy(survey_store) /\ "error" \notin DOMAIN survey_store.d)
                   => survey_store' # survey_store]_vars

\* C26 witness: a survey was processed and is shown in table and form; a later
\* run over more pages raised, and the store holds the error record alone
C26_Witness ==
    /\ survey_store = Store([error |-> "exception"])
    /\ table_data # <<>>
    /\ form_values["uwi"] = "XYZ"
    /\ ~processed_survey.none /\ DOMAIN processed_survey.d = {"error"}
    /\ Len(ocr_log) = 2 /\ Len(llm_log) = 1

MaxHandled == 3

UserTexts == {"NEW"}

\* the app after a Process of all pages that gave a survey with points and after
\* the callback on the table data (a state SpecApp reaches), the user having
\* typed a uwi into the form or not
InitConc ==
    /\ TextIdle
    /\ pages_data \in SeqsUpTo(AppPageOutcomes, MaxPages)
    /\ checkbox_values = [j \in 1..Len(pages_data) |-> TRUE]
    /\ checkbox_changed = FALSE
    /\ selected_page_indices = CheckedIndices(checkbox_values)
    /\ LET run == extract_selected_pages_survey(pages_data, selected_page_indices)
           calls == SelectedPagesCalls(pages_data, selected_page_indices,
                                       [ocr |-> <<>>, llm |-> <<>>])
           survey == run.value
           shown == [k \in MetaKeySet |-> GetOr(survey, k, "")]
       IN  /\ ~run.raised
           /\ GetOr(survey, "survey_points", <<>>) # <<>>
           /\ processed_survey = Store(survey)
           /\ table_columns = TableOf(survey).columns
           /\ table_data = TableOf(survey).data
           /\ survey_store = Store(("survey_points" :> TableOf(survey).data) @@ survey)
           /\ form_values \in {shown} \cup {[shown EXCEPT !["uwi"] = v] : v \in UserTexts}
           /\ ocr_log = calls.ocr
           /\ llm_log = calls.llm
    /\ fn = "none" /\ pc = "idle"
    /\ i = 1 /\ page_no = -1
    /\ all_text = <<>> /\ structured = EmptyDict
    /\ all_page_texts = <<>> /\ all_survey_points = <<>>
    /\ merged_metadata = [f \in MetadataFieldSet |-> None]
    /\ result = EmptyDict /\ warnings = <<>> /\ merge_log = <<>>
    /\ merged_json = NoFile
    /\ table_changed = FALSE
    /\ edits = 0
    /\ shared_csv = NoCsv
    /\ csv_download = NoCsv
    /\ process_btn = ProcessBtnEnabled
    /\ inflight = {}
    /\ handled = <<>>

\* a callback under way: its name and the Input and State values the client
\* sent with it (app.py 561-566, 574-597)
Request(handler) ==
    [handler |-> handler, survey |-> survey_store, table_data |-> table_data,
     form_values |-> form_values]

Requests(handler) == {r \in inflight : r.handler = handler}

conc_frame == << pages_data, selected_page_indices, merge_locals, text_vars, sel_vars,
                 form_values, edits, processed_survey, shared_csv, csv_download,
                 process_btn >>

\* app.py 561-566: survey-table.data has changed and the client sends the
\* request of update_survey_from_table with the store as it is now
RequestUpdateSurveyFromTable ==
    /\ table_changed
    /\ Requests("update_survey_from_table") = {}
    /\ Len(handled) + Cardinality(inflight) < MaxHandled
    /\ inflight' = inflight \cup {Request("update_survey_from_table")}
    /\ table_changed' = FALSE
    /\ UNCHANGED << survey_store, table_columns, table_data, handled, conc_frame >>

\* app.py 574-597: a click of Submit Form sends the request of update_metadata
\* with the store and the form as they are now
RequestUpdateMetadata ==
    /\ Requests("update_metadata") = {}
    /\ Len(handled) + Cardinality(inflight) < MaxHandled
    /\ inflight' = inflight \cup {Request("update_metadata")}
    /\ UNCHANGED << survey_store, table_columns, table_data, table_changed, handled,
                    conc_frame >>

\* app.py 567-571: update_survey_from_table has run on the values sent and its
\* response sets the store
RespondUpdateSurveyFromTable ==
    /\ \E r \in Requests("update_survey_from_table") :
          /\ survey_store' =
                IF Truthy(r.survey)
                THEN Store(("survey_points" :> r.table_data) @@ r.survey.d)
                ELSE r.survey
          /\ inflight' = inflight \ {r}
          /\ handled' = Append(handled, r)
    /\ UNCHANGED << table_columns, table_data, table_changed, conc_frame >>

\* app.py 599-630: update_metadata has run on the values sent and its response
\* sets the store and the table, or nothing when the survey sent was empty
RespondUpdateMetadata ==
    /\ \E r \in Requests("update_metadata") :
          /\ IF Truthy(r.survey)
             THEN LET survey == [k \in DOMAIN r.survey.d \cup MetaKeySet |->
                                    IF k \in MetaKeySet THEN r.form_values[k]
                                    ELSE r.survey.d[k]]
                  IN  /\ survey_store' = Store(survey)
                      /\ table_columns' = TableOf(survey).columns
                      /\ table_data' = TableOf(survey).data
                      /\ table_changed' = TRUE
             ELSE UNCHANGED << survey_store, table_columns, table_data, table_changed >>
          /\ inflight' = inflight \ {r}
          /\ handled' = Append(handled, r)
    /\ UNCHANGED conc_frame

NextConc ==
    \/ EditTableCell
    \/ RequestUpdateSurveyFromTable
    \/ RequestUpdateMetadata
    \/ RespondUpdateSurveyFromTable
    \/ RespondUpdateMetadata

SpecConc == InitConc /\ [][NextConc]_vars

\* the user's one edit of the table and one Submit Form were sent with the same
\* survey, and every response has been applied
ConcurrentPairHandled(a, b) ==
    /\ inflight = {} /\ ~table_changed
    /\ edits = 1
    /\ handled[a].handler = "update_survey_from_table"
    /\ handled[a].table_data # GetOr(handled[a].survey.d, "survey_points", <<>>)
    /\ handled[b].handler = "update_metadata"
    /\ Cardinality({c \in 1..Len(handled) : handled[c].handler = "update_metadata"}) = 1
    /\ handled[a].survey = handled[b].survey

\* C23 (as claimed): when a table edit and a Submit Form were handled from the
\* same snapshot of the survey store, the store in the end holds both the edited
\* point list and the submitted form values, whichever response came last
C23_BothUpdatesKept ==
    \A a, b \in 1..Len(handled) :
       ConcurrentPairHandled(a, b) =>
          /\ StoredPoints = handled[a].table_data
          /\ \A k \in MetaKeySet :
                /\ k \in DOMAIN survey_store.d
                /\ survey_store.d[k] = handled[b].form_values[k]

====
